---- MODULE Spec2Model ----
(***************************************************************************)
(* The request execution pipeline of teloxide-core: the Bot value (token,  *)
(* api_url, client), its clones, set_api_url, and the two entry points     *)
(* execute_json / execute_multipart with the futures they return.          *)
(***************************************************************************)
EXTENDS Integers, Sequences, FiniteSets, TLC

VARIABLES
    bots,      \* the live Bot values, in order of creation
    calls,     \* one record per execute_json / execute_multipart invocation
    payload,   \* the SendMediaGroup value the caller is building
    setlog     \* the setters called on payload so far, in call order

vars == <<bots, calls, payload, setlog>>

----------------------------------------------------------------------------
(* Bounds *)

MaxBots == 2
MaxCalls == 1
MaxIdentityCalls == 2
MaxPipelineCalls == 2
MaxDecoderCalls == 1
MaxFormCalls == 1
MaxSetterCalls == 3

----------------------------------------------------------------------------
(* Values *)

Token == "TOKEN"
TheClient == 1

DefaultUrl == "https://api.telegram.org"
\* the urls a caller passes to set_api_url; the default base is one a caller may pass too
Urls == {DefaultUrl, "https://example.com/"}

ApiUrlDefault == [kind |-> "Default", url |-> "-"]
ApiUrlCustom(url) == [kind |-> "Custom", url |-> url]

ApiUrlGet(a) == IF a.kind = "Default" THEN DefaultUrl ELSE a.url

MethodUrl(base, token, name) == <<base, "/bot", token, "/", name>>

----------------------------------------------------------------------------
(* Payloads *)

Required == <<"chat_id", "media">>

OptionalSwapped == <<"reply_to_message_id", "disable_notification", "allow_sending_without_reply">>
Optional == <<"disable_notification", "reply_to_message_id", "allow_sending_without_reply">>

FieldValues(f) ==
    CASE f = "disable_notification" -> {"true", "false"}
      [] f = "reply_to_message_id" -> {"7"}
      [] f = "allow_sending_without_reply" -> {"true"}
      [] OTHER -> {"x"}

OptionalNames == {Optional[k] : k \in DOMAIN Optional}
RequiredNames == {Required[k] : k \in DOMAIN Required}

\* SendMediaGroup::new(chat_id, media): required fields given, optional ones None
NewSendMediaGroup ==
    [f \in RequiredNames \cup OptionalNames |-> IF f \in RequiredNames THEN "x" ELSE "None"]

\* a generated setter: sets one optional field to Some(v)
SetField(p, f, v) == [p EXCEPT ![f] = v]

RECURSIVE FormParts(_, _)
FormParts(p, fields) ==
    IF fields = <<>> THEN <<>>
    ELSE LET f == Head(fields)
             rest == FormParts(p, Tail(fields))
         IN IF p[f] = "None" THEN rest ELSE <<(<<f, p[f]>>)>> \o rest

\* serde_multipart::to_form: one part per serialized field, in serialization order
to_form(p) == FormParts(p, Required \o Optional)

----------------------------------------------------------------------------
(* Transport outcomes and the response decoder *)

NoResp == [net |-> "none", ok |-> "absent", result |-> "absent",
           description |-> FALSE, error_code |-> FALSE]
NetFail == [NoResp EXCEPT !.net = "failed"]
Envelope(ok, result, description, error_code) ==
    [net |-> "answered", ok |-> ok, result |-> result,
     description |-> description, error_code |-> error_code]

Envelopes ==
    {Envelope(ok, r, d, e) : ok \in {"absent", "true", "false"},
                             r \in {"absent", "valid", "skewed"},
                             d \in BOOLEAN, e \in BOOLEAN}

SampleEnvelopes ==
    {Envelope("true", "valid", FALSE, FALSE),
     Envelope("false", "absent", TRUE, TRUE),
     Envelope("absent", "valid", FALSE, FALSE)}

DecodeLenient(e) ==
    IF e.ok = "true" /\ e.result = "valid" THEN "Ok"
    ELSE IF e.ok = "false" /\ e.description /\ e.error_code THEN "Err_Api"
    ELSE "Err_InvalidJson"

\* the envelope decoder of section 4.4
Decode(e) ==
    IF e.ok = "absent" THEN "Err_InvalidJson"
    ELSE IF e.ok = "true"
         THEN IF e.result = "absent" \/ e.description \/ e.error_code
              THEN "Err_InvalidJson"
              ELSE IF e.result = "valid" THEN "Ok" ELSE "Err_InvalidJson"
         ELSE IF e.result # "absent" /\ ~e.description /\ ~e.error_code
              THEN "Err_InvalidJson"
              ELSE "Err_Api"

ProcessResponseNoNet(r) ==
    IF r.net = "failed" THEN "Err_Api" ELSE Decode(r)

\* net::request_json / net::request_multipart after the transport has answered or failed
ProcessResponse(r) ==
    IF r.net = "failed" THEN "Err_Network" ELSE Decode(r)

----------------------------------------------------------------------------
(* Bot *)

\* Bot::with_client
with_client(token, client) == [token |-> token, api_url |-> ApiUrlDefault, client |-> client]

BotCloneNewClient(b) == [token |-> b.token, api_url |-> b.api_url, client |-> b.client + 1]
\* #[derive(Clone)]: Arc<str>, ApiUrl and reqwest::Client are each cloned by handle
BotClone(b) == [token |-> b.token, api_url |-> b.api_url, client |-> b.client]

SetApiUrlShared(bs, i, url) ==
    [j \in DOMAIN bs |->
        IF bs[j].api_url = bs[i].api_url
        THEN [bs[j] EXCEPT !.api_url = ApiUrlCustom(url)]
        ELSE bs[j]]
\* Bot::set_api_url on the i-th value: self is moved in, changed and returned
SetApiUrlOn(bs, i, url) == [bs EXCEPT ![i].api_url = ApiUrlCustom(url)]

\* Bot::api_url
bot_api_url(b) == ApiUrlGet(b.api_url)

----------------------------------------------------------------------------
(* Calls *)

CaptureFirstBot(bs, i) == bs[1]
\* the three clones at the top of execute_json / execute_multipart
Capture(bs, i) == bs[i]

\* A call: what the future captured (client, token, api_url, params), how far it
\* got (pc), what it sent (reqs), what came back (resp) and its output (result).
\* called_on records what the Bot resolved to when execute_* was invoked.
NewCall(kind, name, b, on, params, encode, pc) ==
    [kind |-> kind, name |-> name, pc |-> pc,
     client |-> b.client, token |-> b.token, api_url |-> b.api_url,
     called_on |-> [url |-> bot_api_url(on), token |-> on.token],
     params |-> params, encode |-> encode,
     reqs |-> <<>>, resp |-> NoResp, result |-> "None"]

\* what the future hands to net::request_*: the captured client, token and api_url.get()
RequestTarget(c) ==
    [url |-> MethodUrl(ApiUrlGet(c.api_url), c.token, c.name), client |-> c.client]

\* net::request_json / net::request_multipart up to the send: one POST on the client
SendRequest(c, body) ==
    [c EXCEPT !.reqs = Append(@, [url |-> RequestTarget(c).url,
                                  client |-> RequestTarget(c).client,
                                  body |-> body]),
              !.pc = "wait"]

JsonFutureTwice(c) == SendRequest(SendRequest(c, <<>>), <<>>)
\* the async block of execute_json, first poll
JsonFuture(c) == SendRequest(c, <<>>)

MultipartFutureNoReturn(c, readable) ==
    IF readable
    THEN SendRequest([c EXCEPT !.encode = "built"], to_form(c.params))
    ELSE SendRequest([c EXCEPT !.encode = "failed", !.result = "Err_Io"], <<>>)
MultipartFutureSendFirst(c, readable) ==
    IF readable
    THEN SendRequest([c EXCEPT !.encode = "built"], to_form(c.params))
    ELSE [SendRequest(c, <<>>) EXCEPT !.encode = "failed", !.pc = "done", !.result = "Err_Io"]
\* the async block of execute_multipart: params.await?, then net::request_multipart
MultipartFuture(c, readable) ==
    IF readable
    THEN SendRequest([c EXCEPT !.encode = "built"], to_form(c.params))
    ELSE [c EXCEPT !.encode = "failed", !.pc = "done", !.result = "Err_Io"]

ExecuteJsonErr(bs, i, serializable) ==
    IF serializable
    THEN NewCall("json", "GetUserProfilePhotos", Capture(bs, i), bs[i],
                 NewSendMediaGroup, "serialized", "send")
    ELSE [NewCall("json", "GetUserProfilePhotos", Capture(bs, i), bs[i],
                  NewSendMediaGroup, "unserializable", "done")
            EXCEPT !.result = "Err_InvalidJson"]
\* Bot::execute_json up to the returned future; the expect panics before one is made
ExecuteJsonCall(bs, i, serializable) ==
    IF serializable
    THEN NewCall("json", "GetUserProfilePhotos", Capture(bs, i), bs[i],
                 NewSendMediaGroup, "serialized", "send")
    ELSE NewCall("json", "GetUserProfilePhotos", Capture(bs, i), bs[i],
                 NewSendMediaGroup, "unserializable", "panicked")

\* Bot::execute_multipart up to the returned future
ExecuteMultipartCall(bs, i, p) ==
    NewCall("multipart", "SendMediaGroup", Capture(bs, i), bs[i], p, "pending", "form")

----------------------------------------------------------------------------
(* Actions *)

Init ==
    /\ bots = <<with_client(Token, TheClient)>>
    /\ calls = <<>>
    /\ payload = NewSendMediaGroup
    /\ setlog = <<>>

clone(i) ==
    /\ Len(bots) < MaxBots
    /\ bots' = Append(bots, BotClone(bots[i]))
    /\ UNCHANGED <<calls, payload, setlog>>

set_api_url(i, url) ==
    /\ bots' = SetApiUrlOn(bots, i, url)
    /\ UNCHANGED <<calls, payload, setlog>>

Setter(f, v) ==
    /\ Len(setlog) < MaxSetterCalls
    /\ payload' = SetField(payload, f, v)
    /\ setlog' = Append(setlog, f)
    /\ UNCHANGED <<bots, calls>>

execute_json(i, serializable, limit) ==
    /\ Len(calls) < limit
    /\ calls' = Append(calls, ExecuteJsonCall(bots, i, serializable))
    /\ UNCHANGED <<bots, payload, setlog>>

execute_multipart(i, limit) ==
    /\ Len(calls) < limit
    /\ calls' = Append(calls, ExecuteMultipartCall(bots, i, payload))
    /\ UNCHANGED <<bots, payload, setlog>>

PollJson(c) ==
    /\ calls[c].kind = "json"
    /\ calls[c].pc = "send"
    /\ calls' = [calls EXCEPT ![c] = JsonFuture(@)]
    /\ UNCHANGED <<bots, payload, setlog>>

PollMultipart(c, readable) ==
    /\ calls[c].kind = "multipart"
    /\ calls[c].pc = "form"
    /\ calls' = [calls EXCEPT ![c] = MultipartFuture(@, readable)]
    /\ UNCHANGED <<bots, payload, setlog>>

\* the transport answers with a body, or fails
Respond(c, r) ==
    /\ calls[c].pc = "wait"
    /\ calls' = [calls EXCEPT ![c].resp = r, ![c].pc = "resp"]
    /\ UNCHANGED <<bots, payload, setlog>>

\* the future is polled after the transport's answer and yields its output
Complete(c) ==
    /\ calls[c].pc = "resp"
    /\ calls' = [calls EXCEPT ![c].result = ProcessResponse(calls[c].resp), ![c].pc = "done"]
    /\ UNCHANGED <<bots, payload, setlog>>

\* the caller drops the future before it has finished
Cancel(c) ==
    /\ calls[c].pc \in {"send", "form", "wait", "resp"}
    /\ calls' = [calls EXCEPT ![c].pc = "cancelled", ![c].resp = NoResp]
    /\ UNCHANGED <<bots, payload, setlog>>

----------------------------------------------------------------------------
(* Specifications *)

\* the whole system
Next ==
    \/ \E i \in DOMAIN bots : clone(i)
    \/ \E i \in DOMAIN bots, url \in Urls : set_api_url(i, url)
    \/ \E i \in DOMAIN bots, s \in BOOLEAN : execute_json(i, s, MaxCalls)
    \/ \E i \in DOMAIN bots : execute_multipart(i, MaxCalls)
    \/ \E c \in DOMAIN calls : PollJson(c)
    \/ \E c \in DOMAIN calls, readable \in BOOLEAN : PollMultipart(c, readable)
    \/ \E c \in DOMAIN calls, r \in SampleEnvelopes \cup {NetFail} : Respond(c, r)
    \/ \E c \in DOMAIN calls : Complete(c)
    \/ \E c \in DOMAIN calls : Cancel(c)

Spec == Init /\ [][Next]_vars

\* an executor polls a future again once the transport has woken it
FairSpec == Spec /\ \A c \in 1..MaxCalls : WF_vars(c \in DOMAIN calls /\ Complete(c))

\* Bot values and the calls made on them, up to the request each call sends
IdentityNext ==
    \/ \E i \in DOMAIN bots : clone(i)
    \/ \E i \in DOMAIN bots, url \in Urls : set_api_url(i, url)
    \/ \E i \in DOMAIN bots, s \in BOOLEAN : execute_json(i, s, MaxIdentityCalls)
    \/ \E i \in DOMAIN bots : execute_multipart(i, MaxIdentityCalls)
    \/ \E c \in DOMAIN calls : PollJson(c)
    \/ \E c \in DOMAIN calls, readable \in BOOLEAN : PollMultipart(c, readable)

IdentitySpec == Init /\ [][IdentityNext]_vars

\* concurrent calls on one Bot, from the call to its output
PipelineNext ==
    \/ \E s \in BOOLEAN : execute_json(1, s, MaxPipelineCalls)
    \/ execute_multipart(1, MaxPipelineCalls)
    \/ \E c \in DOMAIN calls : PollJson(c)
    \/ \E c \in DOMAIN calls, readable \in BOOLEAN : PollMultipart(c, readable)
    \/ \E c \in DOMAIN calls, r \in SampleEnvelopes \cup {NetFail} : Respond(c, r)
    \/ \E c \in DOMAIN calls : Complete(c)
    \/ \E c \in DOMAIN calls : Cancel(c)

PipelineSpec == Init /\ [][PipelineNext]_vars

\* one Bot, every envelope the transport can answer with
DecoderNext ==
    \/ \E s \in BOOLEAN : execute_json(1, s, MaxDecoderCalls)
    \/ execute_multipart(1, MaxDecoderCalls)
    \/ \E c \in DOMAIN calls : PollJson(c)
    \/ \E c \in DOMAIN calls, readable \in BOOLEAN : PollMultipart(c, readable)
    \/ \E c \in DOMAIN calls, r \in Envelopes \cup {NetFail} : Respond(c, r)
    \/ \E c \in DOMAIN calls : Complete(c)

DecoderSpec == Init /\ [][DecoderNext]_vars

\* building a SendMediaGroup with its setters and encoding it
FormNext ==
    \/ \E f \in OptionalNames : \E v \in FieldValues(f) : Setter(f, v)
    \/ execute_multipart(1, MaxFormCalls)
    \/ \E c \in DOMAIN calls, readable \in BOOLEAN : PollMultipart(c, readable)

FormSpec == Init /\ [][FormNext]_vars

----------------------------------------------------------------------------
(* Properties *)

Results == {"Ok", "Err_Network", "Err_InvalidJson", "Err_Api", "Err_Io"}

\* C1 as stated: after B = A.set_api_url(u), B resolves to u and every other Bot
\* value is unchanged and resolves to something other than u.
C1_OlderClonesDifferFromUrl ==
    [][\A i \in DOMAIN bots, url \in Urls :
          set_api_url(i, url) =>
              /\ bot_api_url(bots'[i]) = url
              /\ \A j \in DOMAIN bots \ {i} :
                    bots'[j] = bots[j] /\ bot_api_url(bots'[j]) # url]_vars

\* C1 amended: set_api_url(u) on one Bot value makes that value resolve to u and
\* leaves every other Bot value as it was (so it differs from u exactly when it
\* did before the call); a clone resolves to what its original resolves to and
\* leaves the older values as they were.
C1_SetApiUrlFrame ==
    [][/\ \A i \in DOMAIN bots, url \in Urls :
             set_api_url(i, url) =>
                 /\ bot_api_url(bots'[i]) = url
                 /\ bots'[i].token = bots[i].token
                 /\ Len(bots') = Len(bots)
                 /\ \A j \in DOMAIN bots \ {i} : bots'[j] = bots[j]
       /\ \A i \in DOMAIN bots :
             clone(i) =>
                 /\ bot_api_url(bots'[Len(bots')]) = bot_api_url(bots[i])
                 /\ \A j \in DOMAIN bots : bots'[j] = bots[j]]_vars

\* C1 witness: one value had its url set while an older clone still has the default
C1_Witness ==
    /\ Len(bots) = 2
    /\ \E i, j \in DOMAIN bots :
          /\ bots[i].api_url.kind = "Custom"
          /\ bots[j].api_url.kind = "Default"
          /\ bot_api_url(bots[i]) # bot_api_url(bots[j])

\* C2 as stated: every call driven to completion has issued exactly one request.
C2_ExactlyOneRequestAlways ==
    \A c \in DOMAIN calls : calls[c].pc = "done" => Len(calls[c].reqs) = 1

\* C2 amended: no call ever issues more than one request; a call waiting for the
\* transport or holding its answer has issued exactly one; a completed call has
\* issued exactly one unless it is an execute_multipart whose form could not be
\* built, which has issued none; a call not yet polled, or an execute_json that
\* panicked, has issued none.
C2_RequestCount ==
    \A c \in DOMAIN calls :
        /\ Len(calls[c].reqs) <= 1
        /\ calls[c].pc \in {"wait", "resp"} => Len(calls[c].reqs) = 1
        /\ calls[c].pc \in {"send", "form", "panicked"} => Len(calls[c].reqs) = 0
        /\ calls[c].pc = "done" =>
              IF calls[c].kind = "multipart" /\ calls[c].encode = "failed"
              THEN Len(calls[c].reqs) = 0
              ELSE Len(calls[c].reqs) = 1

\* C2 witness: two like calls both completed, each with a request of its own
C2_Witness ==
    /\ Len(calls) = 2
    /\ calls[1].kind = calls[2].kind
    /\ calls[1].pc = "done" /\ calls[2].pc = "done"
    /\ calls[1].result = "Ok" /\ calls[2].result = "Err_Network"
    /\ Len(calls[1].reqs) = 1 /\ Len(calls[2].reqs) = 1
    /\ calls[1].reqs = calls[2].reqs

\* C3 as stated: every call that has ended without being cancelled has ended in
\* a result value, Ok or Err.
C3_EveryCallEndsInResult ==
    \A c \in DOMAIN calls :
        calls[c].pc \notin {"send", "form", "wait", "resp", "cancelled"} =>
            calls[c].result \in Results

\* C3 amended: every call for which execute_* returned a future (execute_json did
\* not panic on serialization) holds a result value, Ok or Err, exactly when it
\* has completed; an ended call never changes again; and a call the transport
\* has answered or failed completes unless it is cancelled.
C3_TerminalResult ==
    /\ [](\A c \in DOMAIN calls :
             /\ (calls[c].pc = "done") <=> (calls[c].result \in Results)
             /\ calls[c].pc # "done" => calls[c].result = "None")
    /\ [][\A c \in DOMAIN calls :
             calls[c].pc \in {"done", "panicked", "cancelled"} =>
                 c \in DOMAIN calls' /\ calls'[c] = calls[c]]_vars
    /\ \A c \in 1..MaxCalls :
          (c \in DOMAIN calls /\ calls[c].pc = "resp")
              ~> (c \in DOMAIN calls /\ calls[c].pc \in {"done", "cancelled"})

\* C3 witness: a call completed with a result after the transport answered
C3_Witness ==
    \E c \in DOMAIN calls :
        /\ calls[c].pc = "done"
        /\ calls[c].resp.net = "answered"
        /\ calls[c].result \in Results

\* C4: an execute_multipart whose form cannot be built completes with the
\* construction error, not a network error, without any request; and a
\* multipart request is only ever sent with the completely built form as body.
C4_FormBuiltBeforeSend ==
    \A c \in DOMAIN calls :
        calls[c].kind = "multipart" =>
            /\ calls[c].encode = "failed" =>
                  /\ calls[c].pc = "done"
                  /\ calls[c].result = "Err_Io"
                  /\ calls[c].result # "Err_Network"
                  /\ calls[c].reqs = <<>>
                  /\ calls[c].resp = NoResp
            /\ calls[c].reqs # <<>> =>
                  /\ calls[c].encode = "built"
                  /\ \A k \in DOMAIN calls[c].reqs :
                        calls[c].reqs[k].body = to_form(calls[c].params)
            /\ calls[c].result = "Err_Io" => calls[c].encode = "failed"

\* C4 witness: a multipart call whose form failed to build
C4_Witness ==
    \E c \in DOMAIN calls :
        /\ calls[c].kind = "multipart"
        /\ calls[c].encode = "failed"
        /\ calls[c].pc = "done"

\* C5: an execute_json whose payload does not serialize panics in the call
\* itself: it yields no result value and issues no request, and no future
\* of it is ever polled, answered or completed.
C5_SerializationPanics ==
    \A c \in DOMAIN calls :
        /\ calls[c].encode = "unserializable" =>
              /\ calls[c].kind = "json"
              /\ calls[c].pc = "panicked"
              /\ calls[c].result = "None"
              /\ calls[c].reqs = <<>>
              /\ calls[c].resp = NoResp
        /\ calls[c].pc = "panicked" => calls[c].encode = "unserializable"

\* C5 witness: an execute_json call that panicked
C5_Witness ==
    \E c \in DOMAIN calls :
        calls[c].kind = "json" /\ calls[c].encode = "unserializable"

\* C6: a completed call whose request failed at transport level holds the
\* network error, for execute_json and execute_multipart alike.
C6_TransportFailureIsNetwork ==
    \A c \in DOMAIN calls :
        (calls[c].pc = "done" /\ calls[c].resp.net = "failed") =>
            calls[c].result = "Err_Network"

\* C6 witness: a call completed after its one request failed at transport level
C6_Witness ==
    \E c \in DOMAIN calls :
        /\ calls[c].pc = "done"
        /\ calls[c].resp.net = "failed"
        /\ Len(calls[c].reqs) = 1

WellFormed(e) ==
    /\ e.ok # "absent"
    /\ (e.ok = "true") <=> (e.result # "absent" /\ ~e.description /\ ~e.error_code)

\* C7: a completed call whose transport answered holds Ok or an API error only
\* if the envelope is well-formed (Ok only for ok == true, an API error only for
\* ok == false); every envelope that is not, one without `ok` included, gives
\* the invalid-envelope error.
C7_DecoderRejectsMalformed ==
    \A c \in DOMAIN calls :
        (calls[c].pc = "done" /\ calls[c].resp.net = "answered") =>
            /\ calls[c].result \in {"Ok", "Err_Api"} => WellFormed(calls[c].resp)
            /\ ~WellFormed(calls[c].resp) => calls[c].result = "Err_InvalidJson"
            /\ calls[c].resp.ok = "absent" => calls[c].result = "Err_InvalidJson"
            /\ calls[c].result = "Ok" => calls[c].resp.ok = "true"
            /\ calls[c].result = "Err_Api" => calls[c].resp.ok = "false"

\* C7 witness: an envelope with ok == true and a result, but also a description,
\* was rejected
C7_Witness ==
    \E c \in DOMAIN calls :
        /\ calls[c].pc = "done"
        /\ calls[c].resp = Envelope("true", "valid", TRUE, FALSE)
        /\ calls[c].result = "Err_InvalidJson"

Clients ==
    {bots[i].client : i \in DOMAIN bots}
        \cup {calls[c].client : c \in DOMAIN calls}
        \cup UNION {{calls[c].reqs[k].client : k \in DOMAIN calls[c].reqs} : c \in DOMAIN calls}

\* C8: every Bot value, every call and every request sent uses the one client
\* the first Bot was constructed with.
C8_SingleClient == Clients = {TheClient}

\* C8 witness: a clone with its own url, and requests sent by calls on both values
C8_Witness ==
    /\ Len(bots) = 2
    /\ bots[2].api_url.kind = "Custom"
    /\ Len(calls) = 2
    /\ calls[1].reqs # <<>> /\ calls[2].reqs # <<>>
    /\ calls[1].api_url # calls[2].api_url

ClaimOrder ==
    <<"chat_id", "media", "disable_notification", "reply_to_message_id",
      "allow_sending_without_reply">>

PartNames(body) == [k \in DOMAIN body |-> body[k][1]]

IsPresent(p, f) == f \in {"chat_id", "media"} \/ p[f] # "None"

\* C9: the body of every SendMediaGroup request is chat_id, media, then the set
\* ones among disable_notification, reply_to_message_id,
\* allow_sending_without_reply, in that order, each with the payload's value.
C9_PartsInDeclaredOrder ==
    \A c \in DOMAIN calls :
        \A k \in DOMAIN calls[c].reqs :
            calls[c].kind = "multipart" =>
                LET body == calls[c].reqs[k].body
                    p == calls[c].params
                IN /\ PartNames(body) = SelectSeq(ClaimOrder, LAMBDA f : IsPresent(p, f))
                   /\ \A n \in DOMAIN body : body[n][2] = p[body[n][1]]

\* C9 witness: the three setters were called in the reverse of declaration
\* order and the request was sent with all five parts
C9_Witness ==
    /\ setlog = <<"allow_sending_without_reply", "reply_to_message_id", "disable_notification">>
    /\ \E c \in DOMAIN calls :
          /\ calls[c].reqs # <<>>
          /\ Len(calls[c].reqs[1].body) = 5

\* C10: every call sends (or will send) its request on the client, with the
\* token and to the endpoint that the Bot it was invoked on held at that moment,
\* and what a call has captured never changes afterwards.
C10_CallCapturesAtInvocation ==
    /\ [](\A c \in DOMAIN calls :
             /\ RequestTarget(calls[c]).url =
                    MethodUrl(calls[c].called_on.url, calls[c].called_on.token, calls[c].name)
             /\ \A k \in DOMAIN calls[c].reqs :
                    /\ calls[c].reqs[k].url =
                           MethodUrl(calls[c].called_on.url, calls[c].called_on.token,
                                     calls[c].name)
                    /\ calls[c].reqs[k].client = calls[c].client)
    /\ [][\A c \in DOMAIN calls :
             /\ c \in DOMAIN calls'
             /\ calls'[c].api_url = calls[c].api_url
             /\ calls'[c].token = calls[c].token
             /\ calls'[c].client = calls[c].client
             /\ calls'[c].called_on = calls[c].called_on]_vars

\* C10 witness: two calls in flight at once; the first one's request went to an
\* endpoint that no Bot value resolves to any more, the second one's elsewhere
C10_Witness ==
    /\ Len(calls) = 2
    /\ calls[1].pc = "wait" /\ calls[2].pc = "wait"
    /\ calls[1].reqs[1].url # calls[2].reqs[1].url
    /\ \A i \in DOMAIN bots : bot_api_url(bots[i]) # calls[1].called_on.url
    /\ \E i \in DOMAIN bots : bots[i].api_url # calls[2].api_url

====
